---- MODULE Spec2Model ----
(***************************************************************************)
(* A model of the KODO storage driver (registry/storage/driver/kodo).      *)
(*                                                                         *)
(* Strings (paths, keys, the root directory) are sequences of one-letter   *)
(* strings, so that trimming, prefix tests and replacement are computed    *)
(* letter by letter as the Go library does.  Object contents are sequences *)
(* of small naturals (bytes).  The remote bucket is a function from the    *)
(* keys it holds to their contents.                                        *)
(***************************************************************************)
EXTENDS Integers, Sequences, FiniteSets, TLC

(***************************************************************************)
(* Bounds of the model.                                                    *)
(***************************************************************************)
\* longest object the bucket holds at the written key in the initial state
MaxSize == 3
\* largest offset handed to WriteStream
MaxOffset == 3
\* longest byte stream handed to WriteStream
MaxWrite == 2
\* page size of the remote listing; the driver asks for 1000 keys a page,
\* the model for a few, so that a recursive delete spans several pages
listMax == 2
\* the same three bounds for the two callers that write a key concurrently
ConcMaxSize == 1
ConcMaxOffset == 1
ConcMaxWrite == 1
\* removals by other clients of the bucket during one Delete
MaxExternal == 1

VARIABLES
    RootDirectory,  \* params.RootDirectory as New leaves it
    store,          \* the bucket: key -> content
    ws,             \* the WriteStream calls, one record per caller
    tmpFiles,       \* names of the scratch files present in /tmp
    tmpOpen,        \* names of the scratch files held open
    submitted,      \* callers in the order their compose/upload succeeded
    del,            \* the Delete call
    lst             \* the List call

vars == <<RootDirectory, store, ws, tmpFiles, tmpOpen, submitted, del, lst>>

(***************************************************************************)
(* Strings.                                                                *)
(***************************************************************************)
Min(a, b) == IF a < b THEN a ELSE b

Max(a, b) == IF a < b THEN b ELSE a

\* byte order of the letters the model uses ("/" sorts before every letter)
Ord(c) ==
    CASE c = "/" -> 47
      [] c = "a" -> 97
      [] c = "b" -> 98
      [] c = "c" -> 99
      [] c = "r" -> 114

\* strings.HasPrefix
HasPrefix(s, p) ==
    /\ Len(p) <= Len(s)
    /\ SubSeq(s, 1, Len(p)) = p

\* strings.HasSuffix
HasSuffix(s, p) ==
    /\ Len(p) <= Len(s)
    /\ SubSeq(s, Len(s) - Len(p) + 1, Len(s)) = p

\* strings.TrimLeft(s, "/"): drops every leading "/"
RECURSIVE TrimLeft(_)
TrimLeft(s) ==
    IF s # <<>> /\ Head(s) = "/" THEN TrimLeft(Tail(s)) ELSE s

\* strings.TrimRight(s, "/"): drops every trailing "/"
RECURSIVE TrimRight(_)
TrimRight(s) ==
    IF s # <<>> /\ s[Len(s)] = "/" THEN TrimRight(SubSeq(s, 1, Len(s) - 1)) ELSE s

\* strings.TrimSuffix(s, "/"): drops one trailing "/"
TrimSuffix(s) ==
    IF HasSuffix(s, <<"/">>) THEN SubSeq(s, 1, Len(s) - 1) ELSE s

\* strings.Index: position (from 0) of the first occurrence of old in s, -1 if none
Index(s, old) ==
    LET hits == {i \in 0..(Len(s) - Len(old)) : SubSeq(s, i + 1, i + Len(old)) = old}
    IN  IF hits = {} THEN -1 ELSE CHOOSE i \in hits : \A j \in hits : i <= j

\* strings.Contains
Contains(s, sub) == Index(s, sub) >= 0

\* strings.Replace(s, old, new, 1): replaces the first occurrence of old;
\* an empty old matches at the beginning of s
Replace(s, old, new) ==
    LET i == Index(s, old)
    IN  IF i < 0 THEN s
        ELSE SubSeq(s, 1, i) \o new \o SubSeq(s, i + Len(old) + 1, Len(s))

\* byte-wise order of two strings
StrLess(a, b) ==
    \/ /\ Len(a) < Len(b)
       /\ SubSeq(b, 1, Len(a)) = a
    \/ \E i \in 1..Min(Len(a), Len(b)) :
        /\ SubSeq(a, 1, i - 1) = SubSeq(b, 1, i - 1)
        /\ Ord(a[i]) < Ord(b[i])

\* the strings of S in byte-wise order
RECURSIVE SortKeys(_)
SortKeys(S) ==
    IF S = {} THEN <<>>
    ELSE LET m == CHOOSE k \in S : \A o \in S : o = k \/ StrLess(k, o)
         IN  <<m>> \o SortKeys(S \ {m})

\* the sequence s without its repeated elements
RECURSIVE Dedup(_)
Dedup(s) ==
    IF s = <<>> THEN <<>>
    ELSE LET r == Dedup(SubSeq(s, 1, Len(s) - 1))
         IN  IF \E i \in 1..Len(r) : r[i] = s[Len(s)] THEN r ELSE Append(r, s[Len(s)])

\* the elements of the sequence s
Range(s) == {s[i] : i \in 1..Len(s)}

\* all sequences over S of length at most n
SeqsUpTo(S, n) == UNION {[1..k -> S] : k \in 0..n}

(***************************************************************************)
(* Keys.                                                                   *)
(***************************************************************************)
\* New: the root directory loses its trailing slashes
New(rootDirectory) == TrimRight(rootDirectory)

\* driver.getKey
getKey(path) == TrimLeft(RootDirectory \o path)

\* getKey under a given root directory
getKeyOf(root, path) == TrimLeft(root \o path)

(***************************************************************************)
(* The remote bucket.                                                      *)
(***************************************************************************)
\* the bucket st with content stored at key
PutObject(st, key, content) ==
    [k \in (DOMAIN st) \cup {key} |-> IF k = key THEN content ELSE st[k]]

\* the bucket st without key
RemoveObject(st, key) ==
    [k \in (DOMAIN st) \ {key} |-> st[k]]

\* the common prefix a key rolls up into under a delimiter: the prefix and
\* the rest of the key up to and including the first delimiter
CommonPrefix(key, prefix, delimiter) ==
    LET rest == SubSeq(key, Len(prefix) + 1, Len(key))
        i    == Index(rest, delimiter)
    IN  prefix \o SubSeq(rest, 1, i + Len(delimiter))

\* whether a key is listed as an item (and not rolled up into a common prefix)
IsItem(key, prefix, delimiter) ==
    \/ delimiter = <<>>
    \/ ~Contains(SubSeq(key, Len(prefix) + 1, Len(key)), delimiter)

\* kodo.Bucket.List: one page of the keys with the given prefix that follow
\* the marker, in key order; keys holding the delimiter after the prefix are
\* rolled up into common prefixes; the returned marker is empty on the last page
bucketList(st, prefix, delimiter, marker, limit) ==
    LET matching == {k \in DOMAIN st :
                        /\ HasPrefix(k, prefix)
                        /\ (marker = <<>> \/ StrLess(marker, k))}
        sorted   == SortKeys(matching)
        page     == SubSeq(sorted, 1, Min(limit, Len(sorted)))
        itemKeys == SelectSeq(page, LAMBDA k : IsItem(k, prefix, delimiter))
        dirKeys  == SelectSeq(page, LAMBDA k : ~IsItem(k, prefix, delimiter))
    IN  [items    |-> [i \in 1..Len(itemKeys) |->
                          [Key |-> itemKeys[i], Fsize |-> Len(st[itemKeys[i]])]],
         prefixes |-> Dedup([i \in 1..Len(dirKeys) |->
                          CommonPrefix(dirKeys[i], prefix, delimiter)]),
         marker   |-> IF Len(sorted) > limit THEN page[Len(page)] ELSE <<>>]

\* the bytes a part of a compose request contributes: a local part its
\* bytes, a remote part the bytes [From, To) of the object at Key, To = -1
\* standing for the end of the object
PartBytes(st, part) ==
    IF part.kind = "local" THEN part.R
    ELSE LET obj == st[part.Key]
         IN  SubSeq(obj, part.From + 1, IF part.To = -1 THEN Len(obj) ELSE part.To)

\* whether the remote store can serve a part
PartOk(st, part) ==
    \/ part.kind = "local"
    \/ /\ part.Key \in DOMAIN st
       /\ part.From <= Len(st[part.Key])
       /\ (part.To = -1 \/ (part.From <= part.To /\ part.To <= Len(st[part.Key])))

\* the concatenation of the parts' bytes
RECURSIVE Concat(_, _)
Concat(st, parts) ==
    IF parts = <<>> THEN <<>>
    ELSE PartBytes(st, Head(parts)) \o Concat(st, Tail(parts))

\* qiniurs.PutParts: whether the compose request can be served
PutPartsOk(st, parts) == \A i \in 1..Len(parts) : PartOk(st, parts[i])

\* qiniurs.PutParts: the bucket after the compose request
PutParts(st, key, parts) == PutObject(st, key, Concat(st, parts))

(***************************************************************************)
(* Stat.                                                                   *)
(***************************************************************************)
\* driver.Stat: the first key with the path's key as prefix decides; a
\* different key makes the path a directory, whose size is left at zero
Stat(st, path) ==
    LET items == bucketList(st, getKey(path), <<>>, <<>>, 1).items
    IN  IF Len(items) = 0
        THEN [err |-> "PathNotFound", IsDir |-> FALSE, Size |-> 0]
        ELSE LET item  == items[1]
                 isDir == getKey(path) # item.Key
             IN  [err |-> "nil", IsDir |-> isDir,
                  Size |-> IF isDir THEN 0 ELSE item.Fsize]

(***************************************************************************)
(* WriteStream: the parts of the compose request.                          *)
(***************************************************************************)
\* qiniurs.Part{R: r}
LocalPart(r) == [kind |-> "local", R |-> r, Key |-> <<>>, From |-> 0, To |-> 0]

\* qiniurs.Part{Key: key, From: from, To: to}
RemotePart(key, from, to) == [kind |-> "remote", R |-> <<>>, Key |-> key, From |-> from, To |-> to]

\* make([]byte, n)
ZeroBytes(n) == [i \in 1..n |-> 0]

\* offset == 0, the tail of the existing object forgotten
partsOffsetZeroNoTail(path, written, size, tmpF) ==
    <<LocalPart(tmpF)>>

\* offset == 0
partsOffsetZero(path, written, size, tmpF) ==
    <<LocalPart(tmpF)>>
        \o (IF written < size THEN <<RemotePart(path, written, -1)>> ELSE <<>>)

\* offset == stat.Size(), the two parts in the wrong order
partsAppendSwapped(path, tmpF) ==
    <<LocalPart(tmpF), RemotePart(path, 0, -1)>>

\* offset == stat.Size()
partsAppend(path, tmpF) ==
    <<RemotePart(path, 0, -1), LocalPart(tmpF)>>

\* offset < stat.Size(), the tail taken from written instead of written + offset
partsMiddleTailFromWritten(path, offset, written, size, tmpF) ==
    <<RemotePart(path, 0, offset), LocalPart(tmpF)>>
        \o (IF written + offset < size THEN <<RemotePart(path, written, -1)>> ELSE <<>>)

\* offset < stat.Size()
partsMiddle(path, offset, written, size, tmpF) ==
    LET appendSize == written + offset
    IN  <<RemotePart(path, 0, offset), LocalPart(tmpF)>>
            \o (IF appendSize < size THEN <<RemotePart(path, appendSize, -1)>> ELSE <<>>)

\* offset > stat.Size(), the gap as long as the offset
partsSparseGapOffset(path, offset, size, tmpF) ==
    <<RemotePart(path, 0, -1), LocalPart(ZeroBytes(offset)), LocalPart(tmpF)>>

\* offset > stat.Size()
partsSparse(path, offset, size, tmpF) ==
    <<RemotePart(path, 0, -1), LocalPart(ZeroBytes(offset - size)), LocalPart(tmpF)>>

\* the part plan with every offset up to the size taken for an append
WriteStreamPartsAppendInside(path, offset, written, size, tmpF) ==
    IF offset = 0 THEN partsOffsetZero(path, written, size, tmpF)
    ELSE IF offset <= size THEN partsAppend(path, tmpF)
    ELSE partsSparse(path, offset, size, tmpF)

\* the part plan of WriteStream when the lookup found the path
WriteStreamParts(path, offset, written, size, tmpF) ==
    IF offset = 0 THEN partsOffsetZero(path, written, size, tmpF)
    ELSE IF offset = size THEN partsAppend(path, tmpF)
    ELSE IF offset < size THEN partsMiddle(path, offset, written, size, tmpF)
    ELSE partsSparse(path, offset, size, tmpF)

(***************************************************************************)
(* WriteStream: the call, step by step.                                    *)
(***************************************************************************)
\* the callers of WriteStream: caller 1 writes alone, callers 2 and 3 write
\* the same key concurrently
Writers == {1, 2, 3}

Concurrent == {2, 3}

\* the bytes of stored objects and incoming streams (0 is the fill byte)
Bytes == {1, 2}

\* the offsets a caller may name
Offsets(w) == IF w \in Concurrent THEN 0..ConcMaxOffset ELSE 0..MaxOffset

\* the streams a caller may hand in; a concurrent caller's bytes are its own
\* number, so that the bytes of an object tell who wrote them
Readers(w) ==
    IF w \in Concurrent THEN SeqsUpTo({w}, ConcMaxWrite) ELSE SeqsUpTo(Bytes, MaxWrite)

\* the paths the model stores objects at, and the one WriteStream writes
PathA == <<"/", "a">>

PathAB == <<"/", "a", "b">>

PathASlashB == <<"/", "a", "/", "b">>

PathC == <<"/", "c">>

PathR == <<"/", "r">>

PathRSlashA == <<"/", "r", "/", "a">>

WritePaths == {PathA}

NoStat == [err |-> "none", IsDir |-> FALSE, Size |-> 0]

\* a caller that has not called WriteStream
IdleWriter ==
    [pc |-> "idle", path |-> <<>>, key |-> <<>>, offset |-> 0, reader |-> <<>>,
     stat |-> NoStat, writeWholeFile |-> FALSE, tmpData |-> <<>>, written |-> 0,
     parts |-> <<>>, nn |-> 0, err |-> "none", prior |-> <<>>, seen |-> <<>>]

\* defer tmpF.Close()
deferClose(open, name) == open \ {name}

\* the removal of the scratch file forgotten
deferRemoveLeak(files, name) == files

\* defer os.Remove(tmpF.Name())
deferRemove(files, name) == files \ {name}

\* the caller names the path, the offset and the stream; the upload token is made
WriteStreamCall(w) ==
    /\ ws[w].pc = "idle"
    /\ \E path \in WritePaths, offset \in Offsets(w), reader \in Readers(w) :
         ws' = [ws EXCEPT ![w] = [@ EXCEPT !.pc = "stat", !.path = path,
                                            !.offset = offset, !.reader = reader,
                                            !.prior = store]]
    /\ UNCHANGED <<RootDirectory, store, tmpFiles, tmpOpen, submitted, del, lst>>

\* stat, err := d.Stat(ctx, path): not found selects the whole-file upload,
\* any other error is returned
WriteStreamStat(w) ==
    /\ ws[w].pc = "stat"
    /\ \E fails \in BOOLEAN :
         IF fails
         THEN ws' = [ws EXCEPT ![w] = [@ EXCEPT !.pc = "done", !.err = "transport"]]
         ELSE LET stat == Stat(store, ws[w].path)
              IN  ws' = [ws EXCEPT ![w] = [@ EXCEPT !.pc = "tmp", !.stat = stat,
                             !.writeWholeFile = (stat.err = "PathNotFound"),
                             !.key = getKey(ws[w].path),
                             !.seen = store]]
    /\ UNCHANGED <<RootDirectory, store, tmpFiles, tmpOpen, submitted, del, lst>>

\* ioutil.TempFile: on success the scratch file exists and is open, and its
\* close and removal are deferred
WriteStreamTempFile(w) ==
    /\ ws[w].pc = "tmp"
    /\ \E fails \in BOOLEAN :
         IF fails
         THEN /\ ws' = [ws EXCEPT ![w] = [@ EXCEPT !.pc = "done", !.err = "tempfile"]]
              /\ UNCHANGED <<tmpFiles, tmpOpen>>
         ELSE /\ ws' = [ws EXCEPT ![w] = [@ EXCEPT !.pc = "copy"]]
              /\ tmpFiles' = tmpFiles \cup {w}
              /\ tmpOpen' = tmpOpen \cup {w}
    /\ UNCHANGED <<RootDirectory, store, submitted, del, lst>>

\* io.Copy(tmpF, reader)
WriteStreamCopy(w) ==
    /\ ws[w].pc = "copy"
    /\ \E fails \in BOOLEAN :
         IF fails
         THEN /\ ws' = [ws EXCEPT ![w] = [@ EXCEPT !.pc = "done", !.err = "copy"]]
              /\ tmpOpen' = deferClose(tmpOpen, w)
              /\ tmpFiles' = deferRemove(tmpFiles, w)
         ELSE /\ ws' = [ws EXCEPT ![w] = [@ EXCEPT !.pc = "seek",
                             !.written = Len(ws[w].reader),
                             !.tmpData = ws[w].reader]]
              /\ UNCHANGED <<tmpFiles, tmpOpen>>
    /\ UNCHANGED <<RootDirectory, store, submitted, del, lst>>

\* tmpF.Sync(); tmpF.Seek(0, os.SEEK_SET)
WriteStreamSeek(w) ==
    /\ ws[w].pc = "seek"
    /\ \E fails \in BOOLEAN :
         IF fails
         THEN /\ ws' = [ws EXCEPT ![w] = [@ EXCEPT !.pc = "done", !.err = "seek"]]
              /\ tmpOpen' = deferClose(tmpOpen, w)
              /\ tmpFiles' = deferRemove(tmpFiles, w)
         ELSE /\ ws' = [ws EXCEPT ![w] = [@ EXCEPT !.pc = "put"]]
              /\ UNCHANGED <<tmpFiles, tmpOpen>>
    /\ UNCHANGED <<RootDirectory, store, submitted, del, lst>>

\* the compose request (or the whole-file upload) and the return
WriteStreamPut(w) ==
    /\ ws[w].pc = "put"
    /\ LET parts == IF ws[w].writeWholeFile THEN <<>>
                    ELSE WriteStreamParts(ws[w].key, ws[w].offset, ws[w].written,
                                          ws[w].stat.Size, ws[w].tmpData)
       IN  \E fails \in BOOLEAN :
             IF fails \/ (~ws[w].writeWholeFile /\ ~PutPartsOk(store, parts))
             THEN /\ ws' = [ws EXCEPT ![w] = [@ EXCEPT !.pc = "done", !.parts = parts,
                                                       !.err = "put"]]
                  /\ UNCHANGED <<store, submitted>>
             ELSE /\ ws' = [ws EXCEPT ![w] = [@ EXCEPT !.pc = "done", !.parts = parts,
                                                       !.err = "nil",
                                                       !.nn = ws[w].written]]
                  /\ store' = IF ws[w].writeWholeFile
                              THEN PutObject(store, ws[w].key, ws[w].tmpData)
                              ELSE PutParts(store, ws[w].key, parts)
                  /\ submitted' = Append(submitted, w)
    /\ tmpOpen' = deferClose(tmpOpen, w)
    /\ tmpFiles' = deferRemove(tmpFiles, w)
    /\ UNCHANGED <<RootDirectory, del, lst>>

WriteStream(w) ==
    \/ WriteStreamCall(w)
    \/ WriteStreamStat(w)
    \/ WriteStreamTempFile(w)
    \/ WriteStreamCopy(w)
    \/ WriteStreamSeek(w)
    \/ WriteStreamPut(w)

(***************************************************************************)
(* One WriteStream call on a bucket that holds any object at the written   *)
(* key and any of its neighbours.                                          *)
(***************************************************************************)
\* the root directories the driver is configured with
Roots == {<<>>, <<"/">>, <<"/", "r">>, <<"/", "r", "/">>}

\* contents of the neighbours of the written key
SiblingContents == {<<1>>, <<2, 2, 2>>}

IdleDelete ==
    [pc |-> "idle", path |-> <<>>, items |-> <<>>, i |-> 0, marker |-> <<>>, cnt |-> 0,
     err |-> "none", start |-> <<>>, matched |-> {}, removed |-> {}, external |-> {},
     pages |-> 0, emptyPage |-> FALSE, gone |-> FALSE]

IdleList == [pc |-> "idle", path |-> <<>>, result |-> <<>>]

\* the buckets of the WriteStream specifications
WriteStores(root) ==
    LET keyA   == getKeyOf(root, PathA)
        keyAB  == getKeyOf(root, PathAB)
        keyASB == getKeyOf(root, PathASlashB)
    IN  {[k \in K |-> IF k = keyA THEN a ELSE IF k = keyAB THEN ab ELSE asb] :
            K \in SUBSET {keyA, keyAB, keyASB},
            a \in SeqsUpTo(Bytes, MaxSize),
            ab \in SiblingContents, asb \in SiblingContents}

Init ==
    /\ RootDirectory \in {New(r) : r \in Roots}
    /\ store \in WriteStores(RootDirectory)
    /\ ws = [w \in Writers |-> IdleWriter]
    /\ tmpFiles = {}
    /\ tmpOpen = {}
    /\ submitted = <<>>
    /\ del = IdleDelete
    /\ lst = IdleList

Next == WriteStream(1)

Spec == Init /\ [][Next]_vars

(***************************************************************************)
(* Two WriteStream calls on the same key, their steps interleaved.         *)
(***************************************************************************)
InitConc ==
    /\ RootDirectory \in {New(r) : r \in Roots}
    /\ store \in {st \in WriteStores(RootDirectory) :
                    /\ DOMAIN st \subseteq {getKeyOf(RootDirectory, PathA)}
                    /\ \A k \in DOMAIN st : Len(st[k]) <= ConcMaxSize}
    /\ ws = [w \in Writers |-> IdleWriter]
    /\ tmpFiles = {}
    /\ tmpOpen = {}
    /\ submitted = <<>>
    /\ del = IdleDelete
    /\ lst = IdleList

NextConc == \E w \in Concurrent : WriteStream(w)

SpecConc == InitConc /\ [][NextConc]_vars

(***************************************************************************)
(* WriteStream: the properties of one call.                                *)
(***************************************************************************)
\* the call under study, and whether it returned without error
W1 == ws[1]

Succeeded(w) == ws[w].pc = "done" /\ ws[w].err = "nil"

\* whether the bucket held an object at the written key when the call began
PriorExists(w) == getKey(ws[w].path) \in DOMAIN ws[w].prior

\* that object, and the object at the key now
PriorObject(w) == ws[w].prior[getKey(ws[w].path)]

Object(w) == store[getKey(ws[w].path)]

\* C1: after a successful WriteStream at an offset strictly inside an
\* existing object of size S, the object keeps the prior bytes before the
\* offset, holds the incoming bytes at the offset, keeps the prior bytes
\* after the incoming ones when there are any, and has length max(S, offset+W)
C1_MiddleOverwrite ==
    (Succeeded(1) /\ PriorExists(1) /\ 0 < W1.offset /\ W1.offset < Len(PriorObject(1)))
    => LET P   == PriorObject(1)
           obj == Object(1)
           off == W1.offset
           W   == Len(W1.reader)
       IN  /\ Len(obj) = Max(Len(P), off + W)
           /\ \A i \in 1..off : obj[i] = P[i]
           /\ \A i \in 1..W : obj[off + i] = W1.reader[i]
           /\ \A i \in (off + W + 1)..Len(P) : obj[i] = P[i]

\* a successful overwrite of a middle span that leaves a tail of the prior object
C1_Witness ==
    /\ Succeeded(1) /\ PriorExists(1)
    /\ 0 < W1.offset
    /\ Len(W1.reader) > 0
    /\ W1.offset + Len(W1.reader) < Len(PriorObject(1))
    /\ ~W1.writeWholeFile

\* C2: after a successful WriteStream at the offset equal to the size S >= 1
\* of the existing object, the object is the prior object followed by the
\* incoming bytes
C2_PureAppend ==
    (Succeeded(1) /\ PriorExists(1) /\ Len(PriorObject(1)) >= 1
        /\ W1.offset = Len(PriorObject(1)))
    => /\ Object(1) = PriorObject(1) \o W1.reader
       /\ Len(Object(1)) = Len(PriorObject(1)) + Len(W1.reader)

\* a successful append of a non-empty stream to a non-empty object
C2_Witness ==
    /\ Succeeded(1) /\ PriorExists(1)
    /\ Len(PriorObject(1)) >= 2
    /\ W1.offset = Len(PriorObject(1))
    /\ Len(W1.reader) > 0
    /\ ~W1.writeWholeFile

\* C3: after a successful WriteStream at offset 0 on an existing object of
\* size S (S = 0 included), the first W bytes are the incoming bytes, the
\* prior bytes [W, S) are kept, and the length is max(W, S)
C3_OffsetZero ==
    (Succeeded(1) /\ PriorExists(1) /\ W1.offset = 0)
    => LET P   == PriorObject(1)
           obj == Object(1)
           W   == Len(W1.reader)
       IN  /\ Len(obj) = Max(W, Len(P))
           /\ \A i \in 1..W : obj[i] = W1.reader[i]
           /\ \A i \in (W + 1)..Len(P) : obj[i] = P[i]

\* a successful write at offset 0 that is shorter than the existing object
C3_Witness ==
    /\ Succeeded(1) /\ PriorExists(1)
    /\ W1.offset = 0
    /\ Len(W1.reader) > 0
    /\ Len(W1.reader) < Len(PriorObject(1))
    /\ ~W1.writeWholeFile

C5_NoExistingObject ==
    (W1.pc \in {"tmp", "copy", "seek", "put", "done"} /\ W1.stat.err # "none"
        /\ ~PriorExists(1))
    => /\ W1.writeWholeFile
       /\ \A i \in 1..Len(W1.parts) : W1.parts[i].kind # "remote"
       /\ Succeeded(1) => Object(1) = W1.reader

(***************************************************************************)
(* WriteStream: two concurrent calls.                                      *)
(***************************************************************************)
\* what a write of data at offset off makes of the object P when nothing
\* interferes: P up to off (zero-filled beyond its end), data, P's tail
Overlay(P, off, data) ==
    [i \in 1..Max(Len(P), off + Len(data)) |->
        IF off < i /\ i <= off + Len(data) THEN data[i - off]
        ELSE IF i <= Len(P) THEN P[i] ELSE 0]

\* the bucket after caller w's write has run alone on the bucket st
SeqWrite(st, w) ==
    LET key == getKey(ws[w].path)
    IN  IF key \in DOMAIN st
        THEN PutObject(st, key, Overlay(st[key], ws[w].offset, ws[w].reader))
        ELSE PutObject(st, key, ws[w].reader)

\* C6: nothing orders one caller's lookup and compose against the other's.
\* When both calls succeeded and the second to submit had looked the object
\* up after the first one's submission, the bucket is the one the two calls
\* leave when run one after the other in that order; the lost update (the
\* witness) is left to the runs in which the second plan is stale
C6_FreshPlansSerialize ==
    (\A w \in Concurrent : Succeeded(w))
    => LET a      == submitted[1]
           b      == submitted[2]
           afterA == SeqWrite(ws[a].seen, a)
       IN  ws[b].seen = afterA => store = SeqWrite(afterA, b)

\* the lost update: both calls planned from the same snapshot, both
\* succeeded, the object is the later submitter's bytes alone, none of the
\* other caller's bytes is in it, and neither sequential order gives it
C6_Witness ==
    /\ \A w \in Concurrent : Succeeded(w)
    /\ \A v, w \in Concurrent : ws[v].seen = ws[w].seen
    /\ LET a   == submitted[1]
           b   == submitted[2]
           st0 == ws[a].seen
       IN  /\ ~ws[a].writeWholeFile /\ ~ws[b].writeWholeFile
           /\ ws[a].reader # <<>> /\ ws[b].reader # <<>>
           /\ Object(b) = ws[b].reader
           /\ Range(ws[a].reader) \cap Range(Object(b)) = {}
           /\ store # SeqWrite(SeqWrite(st0, a), b)
           /\ store # SeqWrite(SeqWrite(st0, b), a)

\* C7: a call that has returned has closed and removed its scratch file,
\* whichever way it returned, and when no call is in progress no scratch
\* file exists
C7_ScratchCleanup ==
    /\ \A w \in Writers : ws[w].pc = "done" => (w \notin tmpFiles /\ w \notin tmpOpen)
    /\ (\A w \in Writers : ws[w].pc \in {"idle", "done"}) => (tmpFiles = {} /\ tmpOpen = {})

\* both calls returned after creating their scratch files, one on a failed
\* compose request and one with success
C7_Witness ==
    /\ \A w \in Concurrent : ws[w].pc = "done"
    /\ \E w \in Concurrent : ws[w].err = "put"
    /\ \E w \in Concurrent : ws[w].err = "nil"
    /\ tmpFiles = {}

(***************************************************************************)
(* Delete.                                                                 *)
(***************************************************************************)
PathASlashC == <<"/", "a", "/", "c">>

\* the paths the Delete specification stores objects at and deletes
DeletePaths == {PathA, PathASlashB, PathASlashC, PathAB, PathC}

\* cnt += len(items)
deleteCount(cnt, items) == cnt + Len(items)

\* the not-found return forgotten
deleteNotFoundNever(cnt) == FALSE

\* if cnt == 0 { return storagedriver.PathNotFoundError{Path: path} }
deleteNotFound(cnt) == cnt = 0

\* the keys a listing with the path's key as prefix matches
Matching(st, path) == {k \in DOMAIN st : HasPrefix(k, getKey(path))}

\* the end of one pass of the loop: the last page ends the call
DeleteLoopEnd(d) ==
    IF d.marker = <<>> THEN [d EXCEPT !.pc = "done", !.err = "nil"]
    ELSE [d EXCEPT !.pc = "list"]

\* the caller names the path
DeleteCall ==
    /\ del.pc = "idle"
    /\ \E path \in DeletePaths :
         del' = [del EXCEPT !.pc = "list", !.path = path, !.start = store]
    /\ UNCHANGED <<RootDirectory, store, ws, tmpFiles, tmpOpen, submitted, lst>>

\* one page of the listing, and the not-found return when nothing was listed
DeleteList ==
    /\ del.pc = "list"
    /\ \E fails \in BOOLEAN :
         LET seen == IF del.pages = 0
                     THEN [del EXCEPT !.matched = Matching(store, del.path), !.pages = 1]
                     ELSE [del EXCEPT !.pages = @ + 1]
             page == bucketList(store, getKey(del.path), <<>>, del.marker, listMax)
             cnt  == deleteCount(del.cnt, page.items)
             got  == [seen EXCEPT !.items = page.items, !.marker = page.marker,
                                  !.cnt = cnt, !.i = 1,
                                  !.emptyPage = (@ \/ (del.pages > 0 /\ Len(page.items) = 0))]
         IN  IF fails
             THEN del' = [seen EXCEPT !.pc = "done", !.err = "transport"]
             ELSE IF deleteNotFound(cnt)
             THEN del' = [got EXCEPT !.pc = "done", !.err = "PathNotFound"]
             ELSE IF Len(page.items) = 0
             THEN del' = DeleteLoopEnd(got)
             ELSE del' = [got EXCEPT !.pc = "remove"]
    /\ UNCHANGED <<RootDirectory, store, ws, tmpFiles, tmpOpen, submitted, lst>>

\* d.bucket.Delete of the next listed key: a key that is already gone is
\* skipped, any other failure is returned
DeleteItem ==
    /\ del.pc = "remove"
    /\ LET key  == del.items[del.i].Key
           next == IF del.i < Len(del.items) THEN [del EXCEPT !.i = @ + 1]
                   ELSE DeleteLoopEnd(del)
       IN  \E fails \in BOOLEAN :
             IF key \notin DOMAIN store
             THEN /\ del' = [next EXCEPT !.gone = TRUE]
                  /\ UNCHANGED store
             ELSE IF fails
             THEN /\ del' = [del EXCEPT !.pc = "done", !.err = "transport"]
                  /\ UNCHANGED store
             ELSE /\ del' = [next EXCEPT !.removed = @ \cup {key}]
                  /\ store' = RemoveObject(store, key)
    /\ UNCHANGED <<RootDirectory, ws, tmpFiles, tmpOpen, submitted, lst>>

\* another client of the bucket removes a key while the Delete runs
ExternalRemove ==
    /\ del.pc \in {"list", "remove"}
    /\ Cardinality(del.external) < MaxExternal
    /\ \E key \in DOMAIN store :
         /\ store' = RemoveObject(store, key)
         /\ del' = [del EXCEPT !.external = @ \cup {key}]
    /\ UNCHANGED <<RootDirectory, ws, tmpFiles, tmpOpen, submitted, lst>>

\* the buckets of the Delete specification: objects the driver stored
DeleteStores(root) ==
    {[k \in K |-> <<1>>] : K \in SUBSET {getKeyOf(root, p) : p \in DeletePaths}}

InitDelete ==
    /\ RootDirectory \in {New(r) : r \in Roots}
    /\ store \in DeleteStores(RootDirectory)
    /\ ws = [w \in Writers |-> IdleWriter]
    /\ tmpFiles = {}
    /\ tmpOpen = {}
    /\ submitted = <<>>
    /\ del = IdleDelete
    /\ lst = IdleList

NextDelete ==
    \/ DeleteCall
    \/ DeleteList
    \/ DeleteItem
    \/ ExternalRemove

SpecDelete == InitDelete /\ [][NextDelete]_vars

InScope(k, path) ==
    \/ k = getKey(path)
    \/ HasPrefix(k, getKey(path) \o <<"/">>)

\* C10: a successful Delete removes the object at the path and every object
\* under a subpath of it, and leaves every other key (those no other client
\* removed) in the bucket with its content, the keys that only share the
\* path as a string prefix included
C10_DeleteScope ==
    (del.pc = "done" /\ del.err = "nil")
    => \A k \in DOMAIN del.start :
         IF InScope(k, del.path)
         THEN k \notin DOMAIN store
         ELSE k \notin del.external => (k \in DOMAIN store /\ store[k] = del.start[k])

(***************************************************************************)
(* PutContent and List.                                                    *)
(***************************************************************************)
\* the paths the List specification stores objects at
ListStorePaths == {PathA, PathASlashB, PathR, PathRSlashA}

\* the paths it lists
ListPaths == {<<"/">>, PathA, PathR, <<"/", "a", "/">>}

\* no "/" put in front of the keys of an empty root directory
rootPrefixNone == <<>>

\* the prefix that replaces the root in a listed key: "/" when the root
\* directory is "" or "/", nothing otherwise
rootPrefix == IF getKey(<<>>) = <<>> THEN <<"/">> ELSE <<>>

\* strings.Replace(item.Key, d.getKey(""), rootPrefix, 1)
listFile(key) == Replace(key, getKey(<<>>), rootPrefix)

\* strings.Replace(strings.TrimSuffix(prefix, "/"), d.getKey(""), rootPrefix, 1)
listDirectory(prefix) == Replace(TrimSuffix(prefix), getKey(<<>>), rootPrefix)

\* the loop of List over the pages of the listing
RECURSIVE ListLoop(_, _, _, _, _)
ListLoop(st, path, marker, files, directories) ==
    LET page == bucketList(st, getKey(path), <<"/">>, marker, listMax)
        fs   == files \o [i \in 1..Len(page.items) |-> listFile(page.items[i].Key)]
        ds   == directories \o [i \in 1..Len(page.prefixes) |-> listDirectory(page.prefixes[i])]
    IN  IF page.marker = <<>> THEN fs \o ds
        ELSE ListLoop(st, path, page.marker, fs, ds)

\* driver.List
List(st, path) ==
    ListLoop(st, IF path # <<"/">> /\ path[Len(path)] # "/" THEN path \o <<"/">> ELSE path,
             <<>>, <<>>, <<>>)

\* driver.PutContent (the result of an earlier List is dropped)
PutContent ==
    /\ \E path \in ListStorePaths :
         /\ getKey(path) \notin DOMAIN store
         /\ store' = PutObject(store, getKey(path), <<1>>)
    /\ lst' = IdleList
    /\ UNCHANGED <<RootDirectory, ws, tmpFiles, tmpOpen, submitted, del>>

\* a call of List
ListCall ==
    /\ \E path \in ListPaths :
         lst' = [pc |-> "done", path |-> path, result |-> List(store, path)]
    /\ UNCHANGED <<RootDirectory, store, ws, tmpFiles, tmpOpen, submitted, del>>

\* the buckets of the List specification: objects stored by this driver and
\* by drivers that share the bucket under another root directory
ListStores ==
    {[k \in K |-> <<1>>] :
        K \in SUBSET {getKeyOf(New(r), p) : r \in Roots, p \in ListStorePaths}}

InitList ==
    /\ RootDirectory \in {New(r) : r \in Roots}
    /\ store \in ListStores
    /\ ws = [w \in Writers |-> IdleWriter]
    /\ tmpFiles = {}
    /\ tmpOpen = {}
    /\ submitted = <<>>
    /\ del = IdleDelete
    /\ lst = IdleList

NextList ==
    \/ PutContent
    \/ ListCall

SpecList == InitList /\ [][NextList]_vars

\* the listed path with its trailing "/", as List extends it
ListedDir == IF lst.path[Len(lst.path)] = "/" THEN lst.path ELSE lst.path \o <<"/">>

\* the stored paths directly under the listed path
DirectFiles ==
    {p \in ListStorePaths :
        /\ getKey(p) \in DOMAIN store
        /\ HasPrefix(p, ListedDir)
        /\ ~Contains(SubSeq(p, Len(ListedDir) + 1, Len(p)), <<"/">>)}

\* C9 as stated: no listed entry contains the configured root directory,
\* every entry starts with "/" and none ends with "/", and with a non-empty
\* root a file stored at root+p is listed as p
C9_ListHygieneAsStated ==
    (lst.pc = "done")
    => /\ \A i \in 1..Len(lst.result) :
            LET e == lst.result[i]
            IN  /\ RootDirectory # <<>> => ~Contains(e, RootDirectory)
                /\ e # <<>> /\ e[1] = "/" /\ e[Len(e)] # "/"
       /\ RootDirectory # <<>> => \A p \in DirectFiles : p \in Range(lst.result)

\* C9: every listed entry starts with "/", does not end with "/", and is the
\* path p of a stored key root+p or of a directory of stored keys, the root
\* prefix taken off its front once (p itself may repeat the root's name);
\* a file stored at root+p directly under the listed path is listed as p
C9_ListHygiene ==
    (lst.pc = "done")
    => /\ \A i \in 1..Len(lst.result) :
            LET e == lst.result[i]
            IN  /\ e # <<>> /\ e[1] = "/" /\ e[Len(e)] # "/"
                /\ \/ getKey(e) \in DOMAIN store
                   \/ \E k \in DOMAIN store : HasPrefix(k, getKey(e) \o <<"/">>)
       /\ \A p \in DirectFiles : p \in Range(lst.result)

\* a rooted driver has listed a directory holding a file and a directory,
\* in a bucket that also holds keys outside its root
C9_Witness ==
    /\ lst.pc = "done"
    /\ RootDirectory # <<>>
    /\ Len(lst.result) >= 2
    /\ DirectFiles # {}
    /\ \E k \in DOMAIN store : ~HasPrefix(k, getKey(<<>>))

====
